---- MODULE Spec2Model ----
\* Model of the SVM driver pipeline (src/src/main.rs) and of its bytecode
\* lexer and parser (src/src_old/parse.rs).
EXTENDS Integers, Sequences, FiniteSets, TLC

----------------------------------------------------------------------------
\* Bounds of the model.

\* Longest opcode section (bytes after the header) paired with the all-zero header.
MaxBody == 5
\* Longest opcode section paired with a header whose bytes look like opcodes.
MaxHostileBody == 4

\* Byte values the opcode section is drawn from: a plain tag (ReqOp), the
\* EndFunctionOp tag, a 1-byte-operand tag (CTGetOp), the two 4-byte-operand
\* tags (LitOp, GlobalFuncOp), and a byte that is no tag and has its high bit set.
ByteVals == {0, 10, 18, 27, 28, 200}

BoundedSeq(S, n) == UNION {[1..k -> S] : k \in 0..n}

ZeroHeader == <<0, 0, 0, 0>>
HostileHeader == <<10, 200, 27, 18>>

\* Streams that end inside the header.
ShortStreams == {SubSeq(HostileHeader, 1, k) : k \in 0..3}

\* The two ends of the tag table and the first byte past it, alone and after an operand.
EdgeStreams == {ZeroHeader \o <<40>>, ZeroHeader \o <<41>>, ZeroHeader \o <<34, 255>>,
                ZeroHeader \o <<18, 41, 41>>, ZeroHeader \o <<18, 41, 40>>}

\* A 4-byte-operand tag, its four operand bytes, and one more byte, which is
\* in tag position again.
LongStreams ==
    {ZeroHeader \o <<t>> \o o \o <<x>> : t \in {27, 28}, o \in [1..4 -> ByteVals], x \in ByteVals}

----------------------------------------------------------------------------
\* Program constants.

BYTES == <<0, 0, 0, 0, 1, 0, 0, 0, 9, 0, 11, 19, 7, 0, 0, 0, 18, 19, 0, 0, 0, 0, 21>>

BYTES_TO_SKIP == 4

\* A u32 is held as its two 16-bit halves <<hi, lo>>, value hi * 2^16 + lo
\* (TLC's integers are 32-bit signed and cannot hold 2^32 - 1).
Half == 65536

\* The tag table of lex: OpNames[tag + 1] is the opcode of tag 0x00..0x28.
OpNames == <<"ReqOp", "RegionOp", "HeapOp", "CapOp", "CapLEOp", "UniqueOp", "RWOp",
             "BothOp", "HandleOp", "I32Op", "EndFunctionOp", "MutOp", "TupleOp",
             "ArrOp", "AllOp", "SomeOp", "EmosOp", "FuncOp", "CTGetOp", "CTPopOp",
             "UnpackOp", "GetOp", "InitOp", "MallocOp", "ProjOp", "CallOp", "PrintOp",
             "LitOp", "GlobalFuncOp", "HaltOp", "PackOp", "Word32Op", "Word64Op",
             "PtrOp", "ReprsOp", "NewRgnOp", "FreeRgnOp", "ForallOp", "LlarofOp",
             "RgnPolyOp", "YlopNgrOp">>

\* Match arms that read one operand byte.
OneByteTags == {12, 17, 18, 21, 22, 24, 29, 34}
\* Match arms that read four operand bytes.
FourByteTags == {27, 28}
\* Match arms 0x00..0x28; every other byte falls to the `op =>` arm.
KnownTags == 0..40
PlainTags == KnownTags \ (OneByteTags \cup FourByteTags)

OpName(tag) == OpNames[tag + 1]

\* n as u32, for a byte n.
AsU32(n) == <<0, n>>

\* w << 8 on u32: the bits shifted past bit 31 are lost.
Shl8(w) == <<((w[1] * 256) % Half) + (w[2] \div 256), (w[2] * 256) % Half>>

\* w << k on u32, for the shift amounts lex uses (8, 16, 24).
RECURSIVE Shl32(_, _)
Shl32(w, k) == IF k = 0 THEN w ELSE Shl32(Shl8(w), k - 8)

\* a | b on 16 bits.
RECURSIVE BitOr16(_, _)
BitOr16(a, b) ==
    IF a = 0 THEN b
    ELSE IF b = 0 THEN a
    ELSE (IF (a % 2 = 1) \/ (b % 2 = 1) THEN 1 ELSE 0) + 2 * BitOr16(a \div 2, b \div 2)

\* a | b on u32.
BitOr(a, b) == <<BitOr16(a[1], b[1]), BitOr16(a[2], b[2])>>

\* (n1 as u32) << 24 | (n2 as u32) << 16 | (n3 as u32) << 8 | (n4 as u32)
Le32(n1, n2, n3, n4) ==
    BitOr(BitOr(BitOr(Shl32(AsU32(n4), 24), Shl32(AsU32(n3), 16)), Shl32(AsU32(n2), 8)),
          AsU32(n1))
Be32(n1, n2, n3, n4) ==
    BitOr(BitOr(BitOr(Shl32(AsU32(n1), 24), Shl32(AsU32(n2), 16)), Shl32(AsU32(n3), 8)),
          AsU32(n4))

\* w as i32: the same 32 bits read as two's complement.
AsI32(w) == IF w[1] >= 32768 THEN (w[1] - Half) * Half + w[2] ELSE w[1] * Half + w[2]

\* LitOp(... as i32): the token of tag 0x1B.
LitOp(n1, n2, n3, n4) == <<"LitOp", AsI32(Be32(n1, n2, n3, n4))>>
\* GlobalFuncOp(...): the token of tag 0x1C, its u32 kept as two halves.
GlobalFuncOp(n1, n2, n3, n4) ==
    <<"GlobalFuncOp", Be32(n1, n2, n3, n4)[1], Be32(n1, n2, n3, n4)[2]>>

----------------------------------------------------------------------------
\* State.

VARIABLES
    bytes,                \* the ByteStream handed to go
    pc,                   \* position in the pipeline
    bytes_iter,           \* lex: number of bytes the iterator has yielded
    pos,                  \* lex: pos
    lexed_opcodes,        \* lex: lexed_opcodes; parse: tokens
    lex_res,              \* the Result lex returned
    tokens_iter,          \* parse: number of tokens the iterator has yielded
    line,                 \* parse: line
    function_label,       \* parse: function_label
    current_stmt_opcodes, \* parse: current_stmt_opcodes
    parsed_stmts,         \* parse: parsed_stmts
    parse_res,            \* the Result parse::go returned
    verify_res,           \* the Result verify::go returned
    vm_invoked,           \* whether vm::go has been called
    res,                  \* the Result go returned to main
    reported,             \* what main printed with dbg!
    exit_status           \* the status the process ended with (-1 while running)

vars == <<bytes, pc, bytes_iter, pos, lexed_opcodes, lex_res, tokens_iter, line,
          function_label, current_stmt_opcodes, parsed_stmts, parse_res, verify_res,
          vm_invoked, res, reported, exit_status>>

lexVars == <<bytes_iter, pos, lexed_opcodes, lex_res>>
parseVars == <<tokens_iter, line, function_label, current_stmt_opcodes, parsed_stmts>>
goVars == <<parse_res, verify_res, vm_invoked, res>>
mainVars == <<reported, exit_status>>

None == <<"None">>
Ok == <<"Ok">>
Err(kind, p, b) == <<"Err", kind, p, b>>
IsErr(r) == r[1] = "Err"

\* Errors verify::go can return (label and offset left out).
VerifyErrors == {Err("StackUnderflow", 0, 0), Err("TypeMismatch", 0, 0)}

Inputs ==
    {ZeroHeader \o b : b \in BoundedSeq(ByteVals, MaxBody)}
    \cup {HostileHeader \o b : b \in BoundedSeq(ByteVals, MaxHostileBody)}
    \cup LongStreams \cup ShortStreams \cup EdgeStreams \cup {BYTES}

Init ==
    /\ bytes \in Inputs
    /\ pc = "start"
    /\ bytes_iter = 0
    /\ pos = 0
    /\ lexed_opcodes = <<>>
    /\ lex_res = None
    /\ tokens_iter = 0
    /\ line = 0
    /\ function_label = 0
    /\ current_stmt_opcodes = <<>>
    /\ parsed_stmts = <<>>
    /\ parse_res = None
    /\ verify_res = None
    /\ vm_invoked = FALSE
    /\ res = None
    /\ reported = None
    /\ exit_status = -1

----------------------------------------------------------------------------
\* lex (parse.rs 22-134).

\* bytes_iter.next() yields a byte.
HasNext == bytes_iter < Len(bytes)
\* The byte k places past the iterator (k = 1 is what next() yields).
Peek(k) == bytes[bytes_iter + k]
\* How many bytes remain in the iterator.
Remaining == Len(bytes) - bytes_iter

\* main calls go, go calls parse::go, parse::go calls lex: the header is
\* skipped and pos starts at BYTES_TO_SKIP.
LexSkip ==
    /\ pc = "start"
    /\ bytes_iter' = IF Len(bytes) < BYTES_TO_SKIP THEN Len(bytes) ELSE BYTES_TO_SKIP
    /\ pos' = BYTES_TO_SKIP
    /\ lexed_opcodes' = <<>>
    /\ pc' = "lex"
    /\ UNCHANGED <<bytes, lex_res, parseVars, goVars, mainVars>>

\* None => break; Ok(lexed_opcodes).
LexBreak ==
    /\ pc = "lex"
    /\ ~HasNext
    /\ lex_res' = Ok
    /\ pc' = "lexed"
    /\ UNCHANGED <<bytes, bytes_iter, pos, lexed_opcodes, parseVars, goVars, mainVars>>

\* pos += 1, once per iteration of the loop (a u32; it stays below the
\* stream's length, far from wrapping).
NextPos == pos + 1

\* A tag without operand.
LexPlain ==
    /\ pc = "lex"
    /\ HasNext
    /\ Peek(1) \in PlainTags
    /\ lexed_opcodes' = Append(lexed_opcodes, <<OpName(Peek(1))>>)
    /\ bytes_iter' = bytes_iter + 1
    /\ pos' = NextPos
    /\ UNCHANGED <<bytes, pc, lex_res, parseVars, goVars, mainVars>>

\* A tag with one operand byte, present.
LexOneByteOperandLeft ==
    /\ pc = "lex"
    /\ HasNext
    /\ Peek(1) \in OneByteTags
    /\ Remaining >= 2
    /\ lexed_opcodes' = Append(lexed_opcodes, <<OpName(Peek(1)), Peek(2)>>)
    /\ bytes_iter' = bytes_iter + 1
    /\ pos' = NextPos
    /\ UNCHANGED <<bytes, pc, lex_res, parseVars, goVars, mainVars>>
LexOneByte ==
    /\ pc = "lex"
    /\ HasNext
    /\ Peek(1) \in OneByteTags
    /\ Remaining >= 2
    /\ lexed_opcodes' = Append(lexed_opcodes, <<OpName(Peek(1)), Peek(2)>>)
    /\ bytes_iter' = bytes_iter + 2
    /\ pos' = NextPos
    /\ UNCHANGED <<bytes, pc, lex_res, parseVars, goVars, mainVars>>

\* A tag with four operand bytes, all present.
LexFourByte ==
    /\ pc = "lex"
    /\ HasNext
    /\ Peek(1) \in FourByteTags
    /\ Remaining >= 5
    /\ lexed_opcodes' = Append(lexed_opcodes,
           IF Peek(1) = 27 THEN LitOp(Peek(2), Peek(3), Peek(4), Peek(5))
                           ELSE GlobalFuncOp(Peek(2), Peek(3), Peek(4), Peek(5)))
    /\ bytes_iter' = bytes_iter + 5
    /\ pos' = NextPos
    /\ UNCHANGED <<bytes, pc, lex_res, parseVars, goVars, mainVars>>

\* The stream ends inside the operand: Err(SyntaxErrorParamNeeded(pos, *byte)).
LexParamNeeded ==
    /\ pc = "lex"
    /\ HasNext
    /\ \/ Peek(1) \in OneByteTags /\ Remaining < 2
       \/ Peek(1) \in FourByteTags /\ Remaining < 5
    /\ lex_res' = Err("SyntaxErrorParamNeeded", pos, Peek(1))
    /\ bytes_iter' = Len(bytes)
    /\ pc' = "lexed"
    /\ UNCHANGED <<bytes, pos, lexed_opcodes, parseVars, goVars, mainVars>>

\* op => Err(SyntaxErrorUnknownOp(pos, *op)).
LexUnknownOp ==
    /\ pc = "lex"
    /\ HasNext
    /\ Peek(1) \notin KnownTags
    /\ lex_res' = Err("SyntaxErrorUnknownOp", pos, Peek(1))
    /\ bytes_iter' = bytes_iter + 1
    /\ pc' = "lexed"
    /\ UNCHANGED <<bytes, pos, lexed_opcodes, parseVars, goVars, mainVars>>

----------------------------------------------------------------------------
\* parse::go (parse.rs 163-166) and parse (parse.rs 137-160).

\* let tokens = lex(istream)?; with lex's Err: parse::go returns it.
ParseGoErr ==
    /\ pc = "lexed"
    /\ IsErr(lex_res)
    /\ parse_res' = lex_res
    /\ pc' = "parsed"
    /\ UNCHANGED <<bytes, lexVars, parseVars, verify_res, vm_invoked, res, mainVars>>

\* let tokens = lex(istream)?; with Ok: parse(&tokens) starts.
ParseStart ==
    /\ pc = "lexed"
    /\ ~IsErr(lex_res)
    /\ parsed_stmts' = <<>>
    /\ current_stmt_opcodes' = <<>>
    /\ tokens_iter' = 0
    /\ line' = 0
    /\ function_label' = 0
    /\ pc' = "parse"
    /\ UNCHANGED <<bytes, lexVars, goVars, mainVars>>

\* UnverifiedStmt::Func(label, opcodes)
Func(label, opcodes) == [label |-> label, ops |-> opcodes]

IsEndFunctionOp(op) == op[1] = "EndFunctionOp"

\* Some(EndFunctionOp): close the current function.
ParseEndFunctionKeepingLabel ==
    /\ pc = "parse"
    /\ tokens_iter < Len(lexed_opcodes)
    /\ IsEndFunctionOp(lexed_opcodes[tokens_iter + 1])
    /\ parsed_stmts' = Append(parsed_stmts, Func(function_label, current_stmt_opcodes))
    /\ function_label' = function_label
    /\ current_stmt_opcodes' = <<>>
    /\ line' = (line + 1) + 1
    /\ tokens_iter' = tokens_iter + 1
    /\ UNCHANGED <<bytes, pc, lexVars, goVars, mainVars>>
ParseEndFunction ==
    /\ pc = "parse"
    /\ tokens_iter < Len(lexed_opcodes)
    /\ IsEndFunctionOp(lexed_opcodes[tokens_iter + 1])
    /\ parsed_stmts' = Append(parsed_stmts, Func(function_label, current_stmt_opcodes))
    /\ function_label' = line + 1
    /\ current_stmt_opcodes' = <<>>
    /\ line' = (line + 1) + 1
    /\ tokens_iter' = tokens_iter + 1
    /\ UNCHANGED <<bytes, pc, lexVars, goVars, mainVars>>

\* Some(op): the opcode joins the current function.
ParseOp ==
    /\ pc = "parse"
    /\ tokens_iter < Len(lexed_opcodes)
    /\ ~IsEndFunctionOp(lexed_opcodes[tokens_iter + 1])
    /\ current_stmt_opcodes' = Append(current_stmt_opcodes, lexed_opcodes[tokens_iter + 1])
    /\ line' = line + 1
    /\ tokens_iter' = tokens_iter + 1
    /\ UNCHANGED <<bytes, pc, lexVars, function_label, parsed_stmts, goVars, mainVars>>

\* None => break; a non-empty trailing run is pushed; parse::go returns Ok.
ParseBreakPushingAlways ==
    /\ pc = "parse"
    /\ tokens_iter >= Len(lexed_opcodes)
    /\ parsed_stmts' = Append(parsed_stmts, Func(function_label, current_stmt_opcodes))
    /\ parse_res' = Ok
    /\ pc' = "parsed"
    /\ UNCHANGED <<bytes, lexVars, tokens_iter, line, function_label,
                   current_stmt_opcodes, verify_res, vm_invoked, res, mainVars>>
ParseBreak ==
    /\ pc = "parse"
    /\ tokens_iter >= Len(lexed_opcodes)
    /\ parsed_stmts' = IF Len(current_stmt_opcodes) > 0
                       THEN Append(parsed_stmts, Func(function_label, current_stmt_opcodes))
                       ELSE parsed_stmts
    /\ parse_res' = Ok
    /\ pc' = "parsed"
    /\ UNCHANGED <<bytes, lexVars, tokens_iter, line, function_label,
                   current_stmt_opcodes, verify_res, vm_invoked, res, mainVars>>

----------------------------------------------------------------------------
\* go (main.rs 16-21).

\* parse::go(&bytes)? with Err: go returns that error.
GoParseErr ==
    /\ pc = "parsed"
    /\ IsErr(parse_res)
    /\ res' = parse_res
    /\ pc' = "returned"
    /\ UNCHANGED <<bytes, lexVars, parseVars, parse_res, verify_res, vm_invoked, mainVars>>

\* parse::go(&bytes)? with Ok, then verify::go(...) runs and returns.
GoVerify ==
    /\ pc = "parsed"
    /\ ~IsErr(parse_res)
    /\ \E r \in {Ok} \cup VerifyErrors : verify_res' = r
    /\ pc' = "verified"
    /\ UNCHANGED <<bytes, lexVars, parseVars, parse_res, vm_invoked, res, mainVars>>

\* verify::go(...)? with Err: go returns that error.
GoVerifyErrIgnored ==
    /\ pc = "verified"
    /\ IsErr(verify_res)
    /\ vm_invoked' = TRUE
    /\ res' = Ok
    /\ pc' = "returned"
    /\ UNCHANGED <<bytes, lexVars, parseVars, parse_res, verify_res, mainVars>>
GoVerifyErr ==
    /\ pc = "verified"
    /\ IsErr(verify_res)
    /\ res' = verify_res
    /\ pc' = "returned"
    /\ UNCHANGED <<bytes, lexVars, parseVars, parse_res, verify_res, vm_invoked, mainVars>>

\* verify::go(...)? with Ok: vm::go(stmts); Ok(()).
GoVm ==
    /\ pc = "verified"
    /\ ~IsErr(verify_res)
    /\ vm_invoked' = TRUE
    /\ res' = Ok
    /\ pc' = "returned"
    /\ UNCHANGED <<bytes, lexVars, parseVars, parse_res, verify_res, mainVars>>

----------------------------------------------------------------------------
\* main (main.rs 23-28).

\* let _ = dbg!(res); prints the result, Ok or Err alike, and drops it.
MainDbg ==
    /\ pc = "returned"
    /\ reported' = res
    /\ pc' = "main_end"
    /\ UNCHANGED <<bytes, lexVars, parseVars, goVars, exit_status>>

\* main returns (): the process ends with status 0.
MainReturn ==
    /\ pc = "main_end"
    /\ exit_status' = 0
    /\ pc' = "exited"
    /\ UNCHANGED <<bytes, lexVars, parseVars, goVars, reported>>

----------------------------------------------------------------------------

Next ==
    \/ LexSkip
    \/ LexBreak
    \/ LexPlain
    \/ LexOneByte
    \/ LexFourByte
    \/ LexParamNeeded
    \/ LexUnknownOp
    \/ ParseGoErr
    \/ ParseStart
    \/ ParseEndFunction
    \/ ParseOp
    \/ ParseBreak
    \/ GoParseErr
    \/ GoVerify
    \/ GoVerifyErr
    \/ GoVm
    \/ MainDbg
    \/ MainReturn

Spec == Init /\ [][Next]_vars

----------------------------------------------------------------------------
\* Reference reading of a byte stream, by byte offsets: what the format
\* description says of tags and operand widths, independent of lex's loop.

RefOneByteTags == {12, 17, 18, 21, 22, 24, 29, 34}
RefFourByteTags == {27, 28}
RefWidth(tag) == IF tag \in RefOneByteTags THEN 1 ELSE IF tag \in RefFourByteTags THEN 4 ELSE 0

\* The first tag, at 0-based offset i or later, that cannot be lexed, or "none".
RECURSIVE FirstBad(_, _)
FirstBad(bs, i) ==
    IF i >= Len(bs) THEN [kind |-> "none", off |-> i, byte |-> 0]
    ELSE IF bs[i + 1] > 40 THEN [kind |-> "unknown", off |-> i, byte |-> bs[i + 1]]
    ELSE IF i + RefWidth(bs[i + 1]) >= Len(bs) THEN [kind |-> "param", off |-> i, byte |-> bs[i + 1]]
    ELSE FirstBad(bs, i + 1 + RefWidth(bs[i + 1]))

\* The 0-based offsets, from i on, of the bytes in tag position.
RECURSIVE TagOffsets(_, _)
TagOffsets(bs, i) ==
    IF i >= Len(bs) THEN {}
    ELSE {i} \cup (IF bs[i + 1] > 40 THEN {} ELSE TagOffsets(bs, i + 1 + RefWidth(bs[i + 1])))

Expected == FirstBad(bytes, 4)

Last(seq) == seq[Len(seq)]

EndPositions(toks) == {i \in 1..Len(toks) : IsEndFunctionOp(toks[i])}

\* The 1-based position of the n-th EndFunctionOp of toks, which is the
\* 0-based index of the token following it.
NthEnd(toks, n) ==
    CHOOSE i \in EndPositions(toks) : Cardinality({j \in EndPositions(toks) : j <= i}) = n

RECURSIVE ConcatBodies(_)
ConcatBodies(stmts) ==
    IF stmts = <<>> THEN <<>> ELSE stmts[1].ops \o ConcatBodies(Tail(stmts))

NotEnd(t) == ~IsEndFunctionOp(t)

OneByteNames == {"TupleOp", "FuncOp", "CTGetOp", "GetOp", "InitOp", "ProjOp", "HaltOp", "ReprsOp"}
FourByteNames == {"LitOp", "GlobalFuncOp"}
OperandWidth(t) == IF t[1] \in OneByteNames THEN 1 ELSE IF t[1] \in FourByteNames THEN 4 ELSE 0

RECURSIVE EncodedLen(_)
EncodedLen(toks) == IF toks = <<>> THEN 0 ELSE 1 + OperandWidth(toks[1]) + EncodedLen(Tail(toks))

TagOf(name) == CHOOSE tag \in 0..40 : OpNames[tag + 1] = name

\* The bytes of one opcode: its tag, then its operand, big-endian.
EncodeOp(t) ==
    IF t[1] = "LitOp"
    THEN <<27, (t[2] \div 16777216) % 256, (t[2] \div 65536) % 256, (t[2] \div 256) % 256, t[2] % 256>>
    ELSE IF t[1] = "GlobalFuncOp"
    THEN <<28, t[2] \div 256, t[2] % 256, t[3] \div 256, t[3] % 256>>
    ELSE IF t[1] \in OneByteNames THEN <<TagOf(t[1]), t[2]>>
    ELSE <<TagOf(t[1])>>

RECURSIVE Encode(_)
Encode(toks) == IF toks = <<>> THEN <<>> ELSE EncodeOp(toks[1]) \o Encode(Tail(toks))

GoReturned == pc \in {"returned", "main_end", "exited"}

----------------------------------------------------------------------------
\* C1: vm::go is invoked only after parse::go and verify::go both returned
\* Ok; when either returned an error, vm::go is never invoked and go returns
\* that same error.
C1_VmOnlyAfterSuccess ==
    /\ vm_invoked => (parse_res = Ok /\ verify_res = Ok)
    /\ (GoReturned /\ IsErr(parse_res)) =>
           (~vm_invoked /\ verify_res = None /\ res = parse_res /\ res = lex_res)
    /\ (GoReturned /\ IsErr(verify_res)) => (~vm_invoked /\ res = verify_res)

C1_Witness ==
    /\ pc = "returned"
    /\ IsErr(verify_res)
    /\ res = verify_res
    /\ ~vm_invoked

\* C2: a stream that ends inside the operand of a tag makes lex return
\* SyntaxErrorParamNeeded(p, t), t the tag and p the tag's own byte offset,
\* whatever opcodes precede it.
C2_ParamNeededAtTagOffset ==
    (pc = "lexed" /\ Expected.kind = "param") =>
        lex_res = Err("SyntaxErrorParamNeeded", Expected.off, Expected.byte)

\* C3: the first byte in tag position outside 0x00..0x28 makes lex return
\* SyntaxErrorUnknownOp(p, b), p that byte's offset in the stream; every tag
\* in 0x00..0x28 with its operand bytes present is accepted.
C3_UnknownOpAtByteOffset ==
    /\ (pc = "lexed" /\ Expected.kind = "unknown") =>
           lex_res = Err("SyntaxErrorUnknownOp", Expected.off, Expected.byte)
    /\ (pc = "lexed" /\ Expected.kind = "none") => lex_res = Ok

\* C4: every function parse emits is labelled with the 0-based token index
\* of the first opcode of its body: 0 for the first function, and for the
\* k-th function the index of the token following the (k-1)-th EndFunctionOp.
C4_LabelIsFirstOpcodeIndex ==
    parse_res = Ok =>
        \A k \in 1..Len(parsed_stmts) :
            parsed_stmts[k].label = IF k = 1 THEN 0 ELSE NthEnd(lexed_opcodes, k - 1)

\* C5: parse splits exactly at EndFunctionOp: one function per EndFunctionOp
\* plus one for a non-empty trailing run, no body holds an EndFunctionOp, and
\* the bodies in order are the token stream without its EndFunctionOp tokens.
C5_SplitAtEndFunctionOp ==
    parse_res = Ok =>
        /\ Len(parsed_stmts) =
               Cardinality(EndPositions(lexed_opcodes))
               + (IF lexed_opcodes # <<>> /\ NotEnd(Last(lexed_opcodes)) THEN 1 ELSE 0)
        /\ \A k \in 1..Len(parsed_stmts) :
               \A j \in 1..Len(parsed_stmts[k].ops) : NotEnd(parsed_stmts[k].ops[j])
        /\ ConcatBodies(parsed_stmts) = SelectSeq(lexed_opcodes, NotEnd)

C5_Witness ==
    /\ parse_res = Ok
    /\ Cardinality(EndPositions(lexed_opcodes)) >= 2
    /\ lexed_opcodes # <<>> /\ NotEnd(Last(lexed_opcodes))
    /\ Len(parsed_stmts) = 3

\* C6 as stated: every stream parse::go accepts yields exactly one function
\* labelled 0, and it is the first function.
C6_EntryAlwaysExists ==
    parse_res = Ok =>
        /\ Cardinality({k \in 1..Len(parsed_stmts) : parsed_stmts[k].label = 0}) = 1
        /\ parsed_stmts[1].label = 0

\* C6 amended: every stream parse::go accepts that holds at least one byte
\* after the 4-byte header yields exactly one function labelled 0, and it is
\* the first function.
C6_EntryExistsWhenNonEmpty ==
    (parse_res = Ok /\ Len(bytes) > BYTES_TO_SKIP) =>
        /\ Cardinality({k \in 1..Len(parsed_stmts) : parsed_stmts[k].label = 0}) = 1
        /\ parsed_stmts[1].label = 0

C6_Witness ==
    /\ parse_res = Ok
    /\ Len(bytes) > BYTES_TO_SKIP
    /\ Len(parsed_stmts) >= 3
    /\ parsed_stmts[1].label = 0

\* C7: BYTES, lexed after its 4-byte header and parsed, decodes successfully
\* into exactly one function.
C7_BytesDecodeToOneFunction ==
    (bytes = BYTES /\ pc = "parsed") => (parse_res = Ok /\ Len(parsed_stmts) = 1)

\* C8: when go returns an error, main reports it and the process ends with a
\* non-zero status; status zero is produced only when go returned Ok.
C8_ErrorGivesNonZeroStatus ==
    pc = "exited" =>
        /\ IsErr(res) => (reported = res /\ exit_status # 0)
        /\ exit_status = 0 => res = Ok

\* C9: the four operand bytes b1..b4 of a 4-byte-operand tag are decoded
\* big-endian, u = b1*2^24 + b2*2^16 + b3*2^8 + b4: tag 0x1C yields
\* GlobalFuncOp(u), tag 0x1B yields LitOp(v) with v = u for b1 < 0x80 and
\* v = u - 2^32 for b1 >= 0x80; no operand value is an error.
C9_BigEndianOperand ==
    [][(pc = "lex" /\ HasNext /\ Peek(1) \in RefFourByteTags /\ Remaining >= 5) =>
          /\ pc' = "lex"
          /\ lex_res' = None
          /\ Len(lexed_opcodes') = Len(lexed_opcodes) + 1
          /\ Peek(1) = 28 =>
                 Last(lexed_opcodes') =
                     <<"GlobalFuncOp", Peek(2) * 256 + Peek(3), Peek(4) * 256 + Peek(5)>>
          /\ Peek(1) = 27 =>
                 Last(lexed_opcodes') =
                     <<"LitOp", (IF Peek(2) < 128 THEN Peek(2) ELSE Peek(2) - 256) * 16777216
                                + Peek(3) * 65536 + Peek(4) * 256 + Peek(5)>>
      ]_vars

C9_Witness ==
    /\ pc = "lex"
    /\ Len(lexed_opcodes) = 2
    /\ lexed_opcodes[1][1] = "LitOp"
    /\ lexed_opcodes[1][2] < 0
    /\ bytes[6] = 200
    /\ lexed_opcodes[2] = <<"ReqOp">>

\* C10: when lex succeeds on a stream of at least 4 bytes, every byte after
\* the header is consumed exactly once, as a tag or as an operand of the tag
\* before it: the opcodes, re-encoded, are the bytes after the header, and
\* length - 4 is the sum of 1 + operand width over the opcodes. Header and
\* operand bytes are never read as tags: an unknown-opcode error names a byte
\* in tag position.
C10_EveryByteConsumedOnce ==
    /\ (lex_res = Ok /\ Len(bytes) >= BYTES_TO_SKIP) =>
           /\ Len(bytes) - BYTES_TO_SKIP = EncodedLen(lexed_opcodes)
           /\ Encode(lexed_opcodes) = SubSeq(bytes, BYTES_TO_SKIP + 1, Len(bytes))
    /\ (pc = "lexed" /\ IsErr(lex_res) /\ lex_res[2] = "SyntaxErrorUnknownOp") =>
           /\ bytes_iter - 1 \in TagOffsets(bytes, BYTES_TO_SKIP)
           /\ bytes[bytes_iter] = lex_res[4]

C10_Witness ==
    /\ lex_res = Ok
    /\ Len(bytes) > BYTES_TO_SKIP
    /\ bytes[1] = 10
    /\ lexed_opcodes = << <<"CTGetOp", 10>>, <<"CTGetOp", 200>> >>

====
